---- MODULE Spec2Model ----
(***************************************************************************)
(* The WebGL2 buffer backend of luminance (luminance-webgl, buffer.rs) and *)
(* the state cache it drives.  One action per backend operation; the       *)
(* native context (binding point, buffer objects, their data stores) is    *)
(* modelled next to the cache so that the two can be compared.             *)
(*                                                                         *)
(* The state cache itself (webgl2/state.rs: bind_array_buffer,             *)
(* unbind_buffer, create_buffer) is written from section 4.1 of the        *)
(* specification.  Two specifications share the actions: Spec records the  *)
(* last operation and the native calls it issued, SpecRuns records the     *)
(* bind calls on the array-buffer target.                                  *)
(*                                                                         *)
(* The tessellation side (luminance, backend/tess.rs and tess_gate.rs) is  *)
(* a third specification, SpecTess, over the same context: a builder is    *)
(* filled, built into a tessellation, and the tessellation is rendered     *)
(* through the tess gate.  backend/tess.rs only declares the backend       *)
(* operations; what they do is written from sections 4.3 and 4.4 of the    *)
(* specification, the gate is written from tess_gate.rs.  A further        *)
(* specification, SpecTessBuffers, covers the builder when the caller      *)
(* hands it Buffer values it created itself (TessBuilderBuffer) while it   *)
(* goes on using the Buffer values it kept, and the mapping of a built     *)
(* tessellation (TessSlice).                                               *)
(*                                                                         *)
(* Textures (texture.rs: Tex over a HasTexture backend) are a last         *)
(* specification, SpecTex: the caller creates Tex values, clears them,     *)
(* uploads to them and drops them, writes their public field repr and      *)
(* calls the public HasTexture functions itself, and the calls that reach  *)
(* the backend are counted per texture.                                    *)
(***************************************************************************)
EXTENDS Integers, Sequences, FiniteSets, TLC

(* ---- bounds ---------------------------------------------------------- *)
MaxHandles == 2      \* native buffer objects created in one run
MaxBuffers == 2      \* Buffer values the caller holds at one time
MaxLen == 1          \* longest slice / small buffer length
MaxRun == 3          \* Cached binds of one handle in a row that are tracked
MaxCount == 3        \* most vertices / instances in one attached slice
MaxAttach == 2       \* slices attached to one builder
MaxTex == 2          \* backend textures created in one run
MaxFree == 2         \* HasTexture::free calls on one texture

(* ---- values ---------------------------------------------------------- *)
NoBuffer == 0                          \* Option::None of a WebGlBuffer
Handles == 1..MaxHandles
Slots == 1..MaxBuffers
Values == {1, 2}                       \* element values a caller uploads
Zero == 0                              \* contents of freshly allocated storage
BigLen == 2^29                         \* a len whose byte size needs 32 bits
Lens == {MaxLen, BigLen}
Indices == (0..MaxLen) \cup {BigLen}
Slices == {<<>>, [k \in 1..MaxLen |-> IF k % 2 = 1 THEN 1 ELSE 2]}
Junk == Values \cup {Zero}                \* what a read of invalid memory yields
Outcomes ==
  {[kind |-> "ok", val |-> Zero, mapped |-> TRUE]}
    \cup {[kind |-> "trap", val |-> Zero, mapped |-> m] : m \in BOOLEAN}
    \cup {[kind |-> "junk", val |-> v, mapped |-> m] :
             v \in Junk, m \in BOOLEAN}

(* ---- machine integers -------------------------------------------------- *)
(* usize is 32 bits wide on the wasm32 target; a 32-bit quantity is kept   *)
(* as two 16-bit limbs, value = hi * Limb + lo, hi negative for a negative *)
(* i32.  Exact is the product in the integers, MulUsize the product as     *)
(* usize computes it (the lengths used here never make it wrap), AsI32 the *)
(* cast `as i32`.                                                          *)
Limb == 2^16
size_of_T == 4                         \* mem::size_of::<T>() for T = u32, f32

Exact(a, n) ==
  LET p == (n % Limb) * a
  IN  [hi |-> (n \div Limb) * a + (p \div Limb), lo |-> p % Limb]

MulUsize(a, n) ==
  LET e == Exact(a, n) IN [hi |-> e.hi % Limb, lo |-> e.lo]

AsI32(u) ==
  IF u.hi >= Limb \div 2 THEN [hi |-> u.hi - Limb, lo |-> u.lo] ELSE u

ZeroSize == [hi |-> 0, lo |-> 0]
Elems(sz) == (sz.hi * Limb + sz.lo) \div size_of_T

(* ---- state ------------------------------------------------------------- *)
VARIABLES
  bound_array_buffer,  \* WebGL2State: the cached ARRAY_BUFFER binding
  ctx_array_buffer,    \* the context's real ARRAY_BUFFER binding
  created,             \* number of native buffer objects created so far
  alive,               \* native buffer objects created and not deleted
  data,                \* data store of each native buffer object
  alloc,               \* size argument of the buffer-data call on each object
  buffers,             \* the Buffer values held by the caller, in order
  crashed,             \* the process was killed by an invalid read
  lastOp,              \* the operation that produced this state
  lastCalls,           \* native calls issued by that operation, in order
  lastBinds,           \* bind_array_buffer invocations of that operation
  prevCache,           \* bound_array_buffer before that operation
  run,                 \* the bind calls on the array-buffer target
  observe,             \* what is recorded: "ops" (lastOp, lastCalls,
                       \* lastBinds, prevCache) or "runs" (run)
  tb,                  \* the TessBuilderRepr the caller is filling
  tess,                \* the TessRepr the last successful build produced
  tessOp,              \* the tessellation operation that produced this state
  textures,            \* the Tex values of the caller and the backend's textures
  texOp                \* the Tex operation that produced this state

tessVars == <<tb, tess, tessOp>>

texVars == <<textures, texOp>>

vars == <<bound_array_buffer, ctx_array_buffer, created, alive, data, alloc,
          buffers, crashed, lastOp, lastCalls, lastBinds, prevCache, run,
          observe, tb, tess, tessOp, textures, texOp>>

Call(c, h, sz) == [call |-> c, buf |-> h, size |-> sz]

Res(t, v) == [tag |-> t, val |-> v]

Op(o, s, i, l, r) == [op |-> o, slot |-> s, i |-> i, len |-> l, res |-> r]

(* What the "runs" observer keeps of the bind calls on the array-buffer    *)
(* target: the last bind call (handle, mode, native = 1 when it issued the *)
(* native call, hit = the cache recorded its handle before it), the bind   *)
(* call before that one (p...), and the current sequence of consecutive    *)
(* Cached binds of one handle: its length, the native calls its binds      *)
(* issued, and whether the cache recorded the handle before its first bind.*)
NoRun == [handle |-> NoBuffer, mode |-> "none", native |-> 0, hit |-> FALSE,
          len |-> 0, natives |-> 0, firstHit |-> FALSE,
          pHandle |-> NoBuffer, pMode |-> "none", pNative |-> 0,
          pHit |-> FALSE]

RunAfter(r, cache, h, mode, n) ==
  LET cont   == mode = "Cached" /\ r.mode = "Cached" /\ r.handle = h
      starts == mode = "Cached" /\ ~cont
  IN  [handle |-> h, mode |-> mode, native |-> n, hit |-> cache = h,
       len |-> IF cont THEN r.len + 1 ELSE IF starts THEN 1 ELSE 0,
       natives |-> IF cont THEN r.natives + n ELSE IF starts THEN n ELSE 0,
       firstHit |-> IF cont THEN r.firstHit ELSE starts /\ cache = h,
       pHandle |-> r.handle, pMode |-> r.mode, pNative |-> r.native,
       pHit |-> r.hit]

(* ---- tessellation values ---------------------------------------------- *)
Counts == {0, 1, MaxCount}             \* lengths of the slices a caller attaches
Overrides == {1, MaxCount}             \* arguments of set_vertex_nb / _instance_nb
NoNb == -1                             \* no count override was given
Modes == {"Point", "Triangle"}
NoIndex == -1                          \* Option::None of a restart index
Restarts == {NoIndex, 0}
Vertex == 1                            \* the element uploaded for each vertex

Parts == {"vertices", "instances", "indices"}

(* what a builder holds for one attached piece of data: n elements, either *)
(* host data that build uploads (Raw) or a Buffer that was handed over and *)
(* already is in a native buffer (Given)                                   *)
Raw(n) == [n |-> n, buf |-> NoBuffer]

Given(b) == [n |-> b.len, buf |-> b.buf]

NoBuilder ==
  [id |-> 0, phase |-> "None", vbufs |-> <<>>, ibufs |-> <<>>,
   indices |-> <<>>, mode |-> "Point", vertex_nb |-> NoNb,
   instance_nb |-> NoNb, restart |-> NoIndex]

NewBuilder(id) == [NoBuilder EXCEPT !.id = id, !.phase = "Empty"]

(* vertices, instances, indices: the native buffers of the tessellation   *)
NoTess ==
  [id |-> 0, vert_nb |-> 0, inst_nb |-> 0, mode |-> "Point",
   restart |-> NoIndex, vertices |-> <<>>, instances |-> <<>>,
   indices |-> <<>>]

TessView(t, start, vert, inst) ==
  [tess |-> t, start_index |-> start, vert_nb |-> vert, inst_nb |-> inst]

NoView == TessView(0, 0, 0, 0)

(* op, its argument (a mode, a number, or a part of the tessellation), the *)
(* result the backend returned,                                            *)
(* what the caller of the gate got back, the view handed to the gate, the  *)
(* render calls submitted to the backend, the native draw calls, the       *)
(* native buffers created by the operation, and the builder build took     *)
TessOp(o, m, a, r) ==
  [op |-> o, argMode |-> m, arg |-> a, part |-> "none", res |-> r,
   gate |-> "None",
   view |-> NoView, submits |-> <<>>, draws |-> <<>>, allocated |-> {},
   builder |-> NoBuilder]

(* the last operation was none of the tessellation's *)
NoTessOp == TessOp("none", "Point", 0, "Ok")

(* ---- texture values --------------------------------------------------- *)
Texs == 1..MaxTex
Pixels == {1, 2}                       \* P::Encoding values
NoPixel == 0                           \* a texel nothing was written to
TexSize == 2                           \* dim_capacity of the textures created
Texels == [1..TexSize -> Pixels]       \* the vectors a caller uploads

(* made: Tex::new calls so far; held: the Tex values the caller owns;      *)
(* repr: the texture each Tex holds in its field repr; born: the texture   *)
(* Tex::new created for it; count: the textures the backend created;       *)
(* live: the backend textures created and not freed; news / frees: the     *)
(* HasTexture::new / free calls per texture; store: the texels of each     *)
(* texture; fault: a free of a freed texture or a use of one; calls: the   *)
(* backend calls of the last operation, in order                           *)
NoTextures ==
  [made |-> 0, held |-> {}, count |-> 0,
   repr |-> [t \in Texs |-> 0], born |-> [t \in Texs |-> 0], live |-> {},
   news |-> [t \in Texs |-> 0], frees |-> [t \in Texs |-> 0],
   store |-> [t \in Texs |-> [k \in 1..TexSize |-> NoPixel]],
   fault |-> "none", calls |-> <<>>]

TexCall(c, t) == [call |-> c, tex |-> t]

TexOp(o, t) == [op |-> o, tex |-> t]

(* ---- the state cache (WebGL2State) ------------------------------------ *)
(* st = [cache, ctx, calls, binds, run, deleted]: the cache entry, the     *)
(* context's binding, the native calls and the bind_array_buffer           *)
(* invocations of the operation so far, the observed bind calls, and the   *)
(* native objects deleted before the operation                             *)
Deleted == (1..created) \ alive

St == [cache |-> bound_array_buffer, ctx |-> ctx_array_buffer,
       calls |-> <<>>, binds |-> <<>>, run |-> run, deleted |-> Deleted]

MustBind(cache, h, mode) == mode = "Forced" \/ cache # h

(* ctx.bind_buffer(ARRAY_BUFFER, h): binding a deleted object is           *)
(* INVALID_OPERATION and leaves the binding as it was                      *)
BindBuffer(st, h) == IF h \in st.deleted THEN st.ctx ELSE h

bind_array_buffer(st, h, mode) ==
  LET native == MustBind(st.cache, h, mode)
      n == IF native THEN 1 ELSE 0
  IN  [cache |-> IF native THEN h ELSE st.cache,
       ctx   |-> IF native THEN BindBuffer(st, h) ELSE st.ctx,
       calls |-> IF native
                 THEN Append(st.calls, Call("bind_buffer", h, ZeroSize))
                 ELSE st.calls,
       binds |-> Append(st.binds, [handle |-> h, mode |-> mode,
                                   native |-> native]),
       run   |-> RunAfter(st.run, st.cache, h, mode, n),
       deleted |-> st.deleted]

unbind_buffer(st, h) ==
  IF st.cache = h
  THEN [cache |-> NoBuffer,
        ctx   |-> NoBuffer,
        calls |-> Append(st.calls, Call("bind_buffer", NoBuffer, ZeroSize)),
        binds |-> st.binds,
        run   |-> RunAfter(st.run, st.cache, NoBuffer, "Unbind", 1),
        deleted |-> st.deleted]
  ELSE st

(* ---- Init -------------------------------------------------------------- *)
Start ==
  /\ bound_array_buffer = NoBuffer
  /\ ctx_array_buffer = NoBuffer
  /\ created = 0
  /\ alive = {}
  /\ data = [h \in Handles |-> <<>>]
  /\ alloc = [h \in Handles |-> ZeroSize]
  /\ buffers = <<>>
  /\ crashed = FALSE
  /\ lastOp = Op("init", 0, 0, 0, Res("Ok", 0))
  /\ lastCalls = <<>>
  /\ lastBinds = <<>>
  /\ prevCache = NoBuffer
  /\ run = NoRun
  /\ tb = NoBuilder
  /\ tess = NoTess
  /\ tessOp = NoTessOp
  /\ textures = NoTextures
  /\ texOp = TexOp("init", 0)

Init == Start /\ observe = "ops"

InitRuns == Start /\ observe = "runs"

(* ---- the native context ------------------------------------------------ *)
Zeros(n) == [k \in 1..n |-> Zero]

(* ctx.buffer_data_with_i32 / buffer_data_with_u8_array on ARRAY_BUFFER:   *)
(* a negative size is INVALID_VALUE and no bound buffer is                 *)
(* INVALID_OPERATION; both leave every data store as it was.               *)
StoreAfter(target, size, contents) ==
  IF size.hi < 0 \/ target = NoBuffer
  THEN [data |-> data, alloc |-> alloc]
  ELSE [data  |-> [data EXCEPT ![target] = contents],
        alloc |-> [alloc EXCEPT ![target] = size]]

(* ctx.delete_buffer: the object goes away with its data store, and a      *)
(* binding of it reverts to no buffer.                                     *)
CtxAfterDelete(ctx, h) == IF ctx = h THEN NoBuffer ELSE ctx

(* gl::MapBuffer(ARRAY_BUFFER, READ_ONLY): null when nothing is bound, when *)
(* the bound object has no data store, or when the driver cannot map.      *)
Mapped(ctx, driverOk) == driverOk /\ ctx # NoBuffer /\ alloc[ctx] # ZeroSize

(* the pointer gl::MapBuffer returns, kept as the object whose store it    *)
(* points into; NoBuffer is the null pointer                               *)
MapBuffer(ctx, driverOk) == IF Mapped(ctx, driverOk) THEN ctx ELSE NoBuffer

(* ---- buffer.rs ---------------------------------------------------------- *)
(* the caller keeps a new Buffer value after the ones it holds *)
FreeSlot(s) == s = Len(buffers) + 1 /\ s <= MaxBuffers

Held == 1..Len(buffers)

CreatedAlways(buf) == TRUE

Created(buf) == buf # NoBuffer

NewBufferBindCached(st, buf) == bind_array_buffer(st, buf, "Cached")

NewBufferBindRaw(st, buf) ==
  [bind_array_buffer(st, buf, "Forced") EXCEPT !.cache = st.cache]

NewBufferBind(st, buf) == bind_array_buffer(st, buf, "Forced")

FromSliceNoBind(st, buf) == st

FromSliceBind(st, buf) == bind_array_buffer(st, buf, "Forced")

AtBindAlways(st, buf) ==
  [bind_array_buffer([st EXCEPT !.cache = NoBuffer], buf, "Cached")
     EXCEPT !.run = RunAfter(st.run, st.cache, buf, "Cached", 1)]

AtBindAssumed(st, buf) ==
  [bind_array_buffer([st EXCEPT !.cache = buf], buf, "Cached")
     EXCEPT !.run = RunAfter(st.run, st.cache, buf, "Cached", 0)]

AtBind(st, buf) == bind_array_buffer(st, buf, "Cached")

DestroySkipUnbind(st, buf) == st

DestroyUnbindOther(st, buf) == unbind_buffer(st, NoBuffer)

DestroyUnbindBound(st, buf) == unbind_buffer(st, st.cache)

DestroyUnbind(st, buf) == unbind_buffer(st, buf)

InRangeOffByOne(i, len) == ~(i > len)

InRange(i, len) == ~(i >= len)

AllocArg(bytes) == AsI32(bytes)

(* state.create_buffer(): a fresh object, or None *)
create_buffer(ok) == IF ok THEN created + 1 ELSE NoBuffer

Publish(st, op) ==
  /\ bound_array_buffer' = st.cache
  /\ ctx_array_buffer' = st.ctx
  /\ IF observe = "ops"
     THEN /\ lastCalls' = st.calls
          /\ lastBinds' = st.binds
          /\ prevCache' = bound_array_buffer
          /\ lastOp' = op
          /\ UNCHANGED run
     ELSE /\ run' = st.run
          /\ UNCHANGED <<lastCalls, lastBinds, prevCache, lastOp>>
  /\ UNCHANGED observe
  /\ UNCHANGED texVars

WithCall(st, c) == [st EXCEPT !.calls = Append(@, c)]

new_buffer(s, len, ok) ==
  LET bytes == MulUsize(size_of_T, len)
      buf   == create_buffer(ok)
      st0   == WithCall(St, Call("create_buffer", buf, ZeroSize))
  IN  /\ ~crashed
      /\ FreeSlot(s)
      /\ tessOp' = NoTessOp
      /\ UNCHANGED <<tb, tess>>
      /\ ok => created < MaxHandles
      /\ IF ~Created(buf)
         THEN /\ Publish(st0, Op("new_buffer", s, 0, len, Res("CannotCreate", 0)))
              /\ UNCHANGED <<created, alive, data, alloc, buffers, crashed>>
         ELSE LET st1 == NewBufferBind(st0, buf)
                  arg == AllocArg(bytes)
                  sto == StoreAfter(st1.ctx, arg, Zeros(Elems(arg)))
                  st2 == WithCall(st1, Call("buffer_data", st1.ctx, arg))
              IN  /\ Publish(st2, Op("new_buffer", s, 0, len, Res("Ok", 0)))
                  /\ created' = IF ok THEN created + 1 ELSE created
                  /\ alive' = IF ok THEN alive \cup {buf} ELSE alive
                  /\ data' = sto.data
                  /\ alloc' = sto.alloc
                  /\ buffers' = Append(buffers,
                       [buf |-> buf, bytes |-> bytes, len |-> len,
                        origin |-> "new_buffer", init |-> <<>>])
                  /\ UNCHANGED crashed

from_slice(s, slice, ok) ==
  LET len   == Len(slice)
      bytes == MulUsize(size_of_T, len)
      buf   == create_buffer(ok)
      st0   == WithCall(St, Call("create_buffer", buf, ZeroSize))
  IN  /\ ~crashed
      /\ FreeSlot(s)
      /\ tessOp' = NoTessOp
      /\ UNCHANGED <<tb, tess>>
      /\ ok => created < MaxHandles
      /\ IF ~Created(buf)
         THEN /\ Publish(st0, Op("from_slice", s, 0, len, Res("CannotCreate", 0)))
              /\ UNCHANGED <<created, alive, data, alloc, buffers, crashed>>
         ELSE LET st1 == FromSliceBind(st0, buf)
                  sto == StoreAfter(st1.ctx, bytes, slice)
                  st2 == WithCall(st1, Call("buffer_data", st1.ctx, bytes))
              IN  /\ Publish(st2, Op("from_slice", s, 0, len, Res("Ok", 0)))
                  /\ created' = IF ok THEN created + 1 ELSE created
                  /\ alive' = IF ok THEN alive \cup {buf} ELSE alive
                  /\ data' = sto.data
                  /\ alloc' = sto.alloc
                  /\ buffers' = Append(buffers,
                       [buf |-> buf, bytes |-> bytes, len |-> len,
                        origin |-> "from_slice", init |-> slice])
                  /\ UNCHANGED crashed

(* An operation is applied to a Buffer value the caller holds; nothing in  *)
(* the code asks whether its native object still exists.  Buffer has no    *)
(* Drop: a value the caller lets go of is a value it does not use again.   *)
Usable(s) == s \in Held

destroy_buffer(s) ==
  LET b   == buffers[s]
      st1 == DestroyUnbind(St, b.buf)
      st2 == [WithCall(st1, Call("delete_buffer", b.buf, ZeroSize))
                EXCEPT !.ctx = CtxAfterDelete(st1.ctx, b.buf)]
  IN  /\ ~crashed
      /\ Usable(s)
      /\ tessOp' = NoTessOp
      /\ UNCHANGED <<tb, tess>>
      /\ Publish(st2, Op("destroy_buffer", s, 0, 0, Res("Ok", 0)))
      /\ alive' = alive \ {b.buf}
      /\ data' = [data EXCEPT ![b.buf] = <<>>]
      /\ alloc' = [alloc EXCEPT ![b.buf] = ZeroSize]
      /\ UNCHANGED <<created, buffers, crashed>>

len(s) ==
  /\ ~crashed
  /\ tessOp' = NoTessOp
  /\ UNCHANGED <<tb, tess>>
  /\ Usable(s)
  /\ Publish(St, Op("len", s, 0, 0, Res("Len", buffers[s].len)))
  /\ UNCHANGED <<created, alive, data, alloc, buffers, crashed>>

(* at: the read through the mapped pointer is defined only when the        *)
(* pointer is not null and element i lies inside the mapped store;         *)
(* otherwise the read yields an arbitrary value or kills the process.      *)
(* The map call is recorded with the pointer it returned.                  *)
(* outcome.mapped: the driver can map a store.  outcome.kind: the read is  *)
(* defined ("ok"); or it is not, through a null pointer or past the end of *)
(* the store mapped, and it kills the process ("trap") or yields a value   *)
(* ("junk").                                                               *)
at(s, i, outcome) ==
  LET b == buffers[s]
  IN  /\ ~crashed
      /\ Usable(s)
      /\ tessOp' = NoTessOp
      /\ UNCHANGED <<tb, tess>>
      /\ IF ~InRange(i, b.len)
         THEN /\ outcome.kind = "ok"
              /\ Publish(St, Op("at", s, i, b.len, Res("None", 0)))
              /\ UNCHANGED <<created, alive, data, alloc, buffers, crashed>>
         ELSE LET st1 == AtBind(St, b.buf)
                  ptr == MapBuffer(st1.ctx, outcome.mapped)
                  st2 == WithCall(st1, Call("map_buffer", ptr, ZeroSize))
                  ok  == ptr # NoBuffer /\ i < Len(data[ptr])
                  st3 == WithCall(st2, Call("unmap_buffer", st1.ctx,
                                            ZeroSize))
              IN  /\ st1.run.len <= MaxRun
                  /\ IF ok
                     THEN /\ outcome.kind = "ok"
                          /\ Publish(st3, Op("at", s, i, b.len,
                                 Res("Some", data[ptr][i + 1])))
                          /\ UNCHANGED crashed
                     ELSE IF outcome.kind = "trap"
                     THEN /\ Publish(st2, Op("at", s, i, b.len,
                                             Res("Crash", 0)))
                          /\ crashed' = TRUE
                     ELSE /\ outcome.kind = "junk"
                          /\ Publish(st3, Op("at", s, i, b.len,
                                             Res("Some", outcome.val)))
                          /\ UNCHANGED crashed
                  /\ UNCHANGED <<created, alive, data, alloc, buffers>>

(* #[derive(Clone)] on Buffer: a second Buffer value with the same fields  *)
clone(s, t) ==
  /\ ~crashed
  /\ tessOp' = NoTessOp
  /\ UNCHANGED <<tb, tess>>
  /\ Usable(s)
  /\ FreeSlot(t)
  /\ Publish(St, Op("clone", t, 0, 0, Res("Ok", 0)))
  /\ buffers' = Append(buffers, buffers[s])
  /\ UNCHANGED <<created, alive, data, alloc, crashed>>

(* ---- backend/tess.rs: the tessellation builder -------------------------- *)
Range(q) == {q[k] : k \in 1..Len(q)}

CountsOf(q) == {q[k].n : k \in 1..Len(q)}

(* build takes the TessBuilderRepr by value: once it was called, the       *)
(* caller has no builder left to pass to add_*, set_* or build.            *)
LiveAlways(b) == b.phase # "None"

Live(b) == b.phase \in {"Empty", "Accumulating"}

Attached(b) == Len(b.vbufs) + Len(b.ibufs)

Touch(b) == [b EXCEPT !.phase = "Accumulating"]

(* what is left of the builder once build has taken it: its identity and  *)
(* how the build ended                                                     *)
Consumed(b, phase) == [NoBuilder EXCEPT !.id = b.id, !.phase = phase]

AddVertices(b, n) == [b EXCEPT !.vbufs = Append(@, Raw(n))]

AddInstances(b, n) == [b EXCEPT !.ibufs = Append(@, Raw(n))]

(* zero or one index buffer: the index data given last *)
SetIndices(b, n) == [b EXCEPT !.indices = <<Raw(n)>>]

AddVertexBuffer(b, buf) == [b EXCEPT !.vbufs = Append(@, Given(buf))]

AddInstanceBuffer(b, buf) == [b EXCEPT !.ibufs = Append(@, Given(buf))]

SetIndexBuffer(b, buf) == [b EXCEPT !.indices = <<Given(buf)>>]

SetMode(b, mode) == [b EXCEPT !.mode = mode]

SetVertexNbOnce(b, nb) ==
  IF b.vertex_nb = NoNb THEN [b EXCEPT !.vertex_nb = nb] ELSE b

SetVertexNb(b, nb) == [b EXCEPT !.vertex_nb = nb]

SetInstanceNb(b, nb) == [b EXCEPT !.instance_nb = nb]

SetPrimitiveRestartIndex(b, index) == [b EXCEPT !.restart = index]

(* the counts build compares: those of the attached vertex slices unless   *)
(* set_vertex_nb was called, those of the attached instance slices unless  *)
(* set_instance_nb was called                                              *)
Checked(b) ==
  (IF b.vertex_nb = NoNb THEN CountsOf(b.vbufs) ELSE {})
  \cup (IF b.instance_nb = NoNb THEN CountsOf(b.ibufs) ELSE {})

Consistent(b) == Cardinality(Checked(b)) <= 1

VertexNbAttached(b) ==
  IF b.vertex_nb # NoNb THEN b.vertex_nb ELSE Len(b.vbufs)

VertexNb(b) ==
  IF b.vertex_nb # NoNb THEN b.vertex_nb
  ELSE IF b.vbufs = <<>> THEN 0 ELSE b.vbufs[1].n

InstanceNb(b) ==
  IF b.instance_nb # NoNb THEN b.instance_nb
  ELSE IF b.ibufs = <<>> THEN 0 ELSE b.ibufs[1].n

ValidAlways(b) == TRUE

Valid(b) == Consistent(b) /\ VertexNb(b) > 0

tess_vertices_nb(t) == t.vert_nb

tess_instances_nb(t) == t.inst_nb

BuilderStep(b, op) ==
  /\ ~crashed
  /\ Live(tb)
  /\ tb' = Touch(b)
  /\ tessOp' = op
  /\ Publish(St, Op(op.op, 0, 0, 0, Res("Ok", 0)))
  /\ UNCHANGED <<tess, created, alive, data, alloc, buffers, crashed>>

(* the Buffer values the caller keeps once it gave away the one at s *)
Without(q, s) ==
  [k \in 1..(Len(q) - 1) |-> IF k < s THEN q[k] ELSE q[k + 1]]

(* a step that hands the Buffer value at s over to the builder: the        *)
(* parameter `buf` is taken by value                                       *)
BuilderTake(b, op, s) ==
  /\ ~crashed
  /\ Live(tb)
  /\ tb' = Touch(b)
  /\ tessOp' = op
  /\ Publish(St, Op(op.op, s, 0, 0, Res("Ok", 0)))
  /\ buffers' = Without(buffers, s)
  /\ UNCHANGED <<tess, created, alive, data, alloc, crashed>>

(* one builder is followed from its creation to the tessellation built    *)
(* from it                                                                 *)
new_tess_builder ==
  /\ ~crashed
  /\ tb.phase = "None"
  /\ tb' = NewBuilder(tb.id + 1)
  /\ tessOp' = TessOp("new_tess_builder", "Point", 0, "Ok")
  /\ Publish(St, Op("new_tess_builder", 0, 0, 0, Res("Ok", 0)))
  /\ UNCHANGED <<tess, created, alive, data, alloc, buffers, crashed>>

add_vertices(n) ==
  /\ Attached(tb) < MaxAttach
  /\ BuilderStep(AddVertices(tb, n), TessOp("add_vertices", "Point", n, "Ok"))

add_instances(n) ==
  /\ Attached(tb) < MaxAttach
  /\ BuilderStep(AddInstances(tb, n),
                 TessOp("add_instances", "Point", n, "Ok"))

set_indices(n) ==
  /\ n \in Overrides
  /\ BuilderStep(SetIndices(tb, n), TessOp("set_indices", "Point", n, "Ok"))

add_vertex_buffer(s) ==
  /\ Usable(s)
  /\ Attached(tb) < MaxAttach
  /\ BuilderTake(AddVertexBuffer(tb, buffers[s]),
                 TessOp("add_vertex_buffer", "Point", buffers[s].buf, "Ok"),
                 s)

add_instance_buffer(s) ==
  /\ Usable(s)
  /\ Attached(tb) < MaxAttach
  /\ BuilderTake(AddInstanceBuffer(tb, buffers[s]),
                 TessOp("add_instance_buffer", "Point", buffers[s].buf,
                        "Ok"),
                 s)

set_index_buffer(s) ==
  /\ Usable(s)
  /\ BuilderTake(SetIndexBuffer(tb, buffers[s]),
                 TessOp("set_index_buffer", "Point", buffers[s].buf, "Ok"),
                 s)

set_mode(mode) ==
  /\ mode \in Modes
  /\ BuilderStep(SetMode(tb, mode), TessOp("set_mode", mode, 0, "Ok"))

set_vertex_nb(nb) ==
  /\ nb \in Overrides
  /\ BuilderStep(SetVertexNb(tb, nb),
                 TessOp("set_vertex_nb", "Point", nb, "Ok"))

set_instance_nb(nb) ==
  /\ nb \in Overrides
  /\ BuilderStep(SetInstanceNb(tb, nb),
                 TessOp("set_instance_nb", "Point", nb, "Ok"))

set_primitive_restart_index(index) ==
  /\ index \in Restarts
  /\ BuilderStep(SetPrimitiveRestartIndex(tb, index),
                 TessOp("set_primitive_restart_index", "Point", index, "Ok"))

(* build takes the attached data one piece after the other: host data is  *)
(* uploaded as from_slice does, a Buffer that was handed over is kept as   *)
(* it is.  x is the context while it does so: the state cache and the      *)
(* calls issued so far (st), the native objects and their stores, the      *)
(* handles this build created (got), the handles of all pieces so far      *)
(* (own), and whether every creation succeeded (ok).                       *)
Mem == [st |-> St, created |-> created, alive |-> alive, data |-> data,
        alloc |-> alloc, got |-> <<>>, own |-> <<>>, ok |-> TRUE]

IsRaw(e) == e.buf = NoBuffer

Raws(entries) == Cardinality({k \in 1..Len(entries) : IsRaw(entries[k])})

UploadOne(x, e, canCreate) ==
  LET n   == e.n
      buf == IF canCreate THEN x.created + 1 ELSE NoBuffer
      st0 == WithCall(x.st, Call("create_buffer", buf, ZeroSize))
  IN  IF ~IsRaw(e)
      THEN [x EXCEPT !.own = Append(@, e.buf)]
      ELSE IF ~Created(buf)
      THEN [x EXCEPT !.st = st0, !.ok = FALSE]
      ELSE LET st1   == FromSliceBind(st0, buf)
               bytes == MulUsize(size_of_T, n)
               st2   == WithCall(st1, Call("buffer_data", st1.ctx, bytes))
               t     == st1.ctx
           IN  [st |-> st2,
                created |-> buf,
                alive |-> x.alive \cup {buf},
                data |-> IF t = NoBuffer THEN x.data
                         ELSE [x.data EXCEPT ![t] = [k \in 1..n |-> Vertex]],
                alloc |-> IF t = NoBuffer THEN x.alloc
                          ELSE [x.alloc EXCEPT ![t] = bytes],
                got |-> Append(x.got, buf),
                own |-> Append(x.own, buf),
                ok |-> TRUE]

(* fail: which creation the backend refuses (0: none) *)
RECURSIVE Upload(_, _, _)
Upload(x, entries, fail) ==
  IF entries = <<>> \/ ~x.ok
  THEN x
  ELSE Upload(UploadOne(x, Head(entries), fail # 1), Tail(entries),
              IF fail = 0 \/ ~IsRaw(Head(entries)) THEN fail ELSE fail - 1)

ReleaseOne(x, h) ==
  LET st1 == DestroyUnbind(x.st, h)
      st2 == [WithCall(st1, Call("delete_buffer", h, ZeroSize))
                EXCEPT !.ctx = CtxAfterDelete(st1.ctx, h)]
  IN  [x EXCEPT !.st = st2, !.alive = @ \ {h}, !.data[h] = <<>>,
                !.alloc[h] = ZeroSize]

RECURSIVE Release(_, _)
Release(x, hs) ==
  IF hs = <<>> THEN x ELSE Release(ReleaseOne(x, Head(hs)), Tail(hs))

build(fail) ==
  LET counts == tb.vbufs \o tb.ibufs \o tb.indices
      nv     == Len(tb.vbufs)
      ni     == Len(tb.ibufs)
      up     == Upload(Mem, counts, fail)
      done   == IF up.ok THEN up ELSE Release(up, up.got)
      res    == IF up.ok THEN "Ok" ELSE "TessError"
  IN  /\ ~crashed
      /\ Live(tb)
      /\ fail <= Raws(counts)
      /\ IF ~Valid(tb)
         THEN /\ fail = 0
              /\ tb' = Consumed(tb, "Failed")
              /\ tessOp' = [TessOp("build", tb.mode, 0, "TessError")
                              EXCEPT !.builder = tb]
              /\ Publish(St, Op("build", 0, 0, 0, Res("TessError", 0)))
              /\ UNCHANGED <<tess, created, alive, data, alloc, buffers,
                             crashed>>
         ELSE /\ created + Raws(counts) <= MaxHandles
              /\ tb' = Consumed(tb, IF up.ok THEN "Built" ELSE "Failed")
              /\ tess' = IF up.ok
                         THEN [id |-> tb.id, vert_nb |-> VertexNb(tb),
                               inst_nb |-> InstanceNb(tb), mode |-> tb.mode,
                               restart |-> tb.restart,
                               vertices |-> SubSeq(up.own, 1, nv),
                               instances |-> SubSeq(up.own, nv + 1, nv + ni),
                               indices |-> SubSeq(up.own, nv + ni + 1,
                                                  Len(counts))]
                         ELSE tess
              /\ tessOp' = [TessOp("build", tb.mode, 0, res)
                              EXCEPT !.allocated = Range(up.got),
                                     !.builder = tb]
              /\ Publish(done.st, Op("build", 0, 0, 0, Res(res, 0)))
              /\ created' = done.created
              /\ alive' = done.alive
              /\ data' = done.data
              /\ alloc' = done.alloc
              /\ UNCHANGED <<buffers, crashed>>

(* ---- backend/tess.rs: TessSlice ---------------------------------------- *)
(* slice_*: access from the CPU to one part of a tessellation.  The native *)
(* buffer of the part is bound (Cached) and mapped; the result is          *)
(* TessMapError when the tessellation has no buffer for the part or the    *)
(* buffer cannot be mapped, and a slice over the buffer otherwise.         *)
SliceStep(name, part, driverOk) ==
  LET hs  == tess[part]
      h   == hs[1]
      st1 == bind_array_buffer(St, h, "Cached")
      ptr == MapBuffer(st1.ctx, driverOk)
      st2 == WithCall(st1, Call("map_buffer", ptr, ZeroSize))
      res == IF ptr # NoBuffer THEN "Ok" ELSE "TessMapError"
  IN  /\ ~crashed
      /\ tess.id # 0
      /\ IF hs = <<>>
         THEN /\ driverOk
              /\ tessOp' = [TessOp(name, "Point", NoBuffer, "TessMapError")
                              EXCEPT !.part = part]
              /\ Publish(St, Op(name, 0, 0, 0, Res("TessMapError", 0)))
         ELSE /\ tessOp' = [TessOp(name, "Point", h, res)
                              EXCEPT !.part = part]
              /\ Publish(st2, Op(name, 0, 0, 0, Res(res, 0)))
      /\ UNCHANGED <<tb, tess, created, alive, data, alloc, buffers, crashed>>

slice_vertices(driverOk) ==
  /\ driverOk \in BOOLEAN
  /\ SliceStep("slice_vertices", "vertices", driverOk)

slice_vertices_mut(driverOk) ==
  /\ driverOk \in BOOLEAN
  /\ SliceStep("slice_vertices_mut", "vertices", driverOk)

slice_indices(driverOk) ==
  /\ driverOk \in BOOLEAN
  /\ SliceStep("slice_indices", "indices", driverOk)

slice_indices_mut(driverOk) ==
  /\ driverOk \in BOOLEAN
  /\ SliceStep("slice_indices_mut", "indices", driverOk)

slice_instances(driverOk) ==
  /\ driverOk \in BOOLEAN
  /\ SliceStep("slice_instances", "instances", driverOk)

slice_instances_mut(driverOk) ==
  /\ driverOk \in BOOLEAN
  /\ SliceStep("slice_instances_mut", "instances", driverOk)

(* obtain_slice*: the elements behind a slice that slice_* handed out for  *)
(* a part of the tessellation; arg is their number                         *)
ObtainStep(name, part) ==
  /\ ~crashed
  /\ tess.id # 0
  /\ tess[part] # <<>>
  /\ alloc[tess[part][1]] # ZeroSize
  /\ tessOp' = [TessOp(name, "Point", Len(data[tess[part][1]]), "Ok")
                  EXCEPT !.part = part]
  /\ Publish(St, Op(name, 0, 0, 0, Res("Ok", 0)))
  /\ UNCHANGED <<tb, tess, created, alive, data, alloc, buffers, crashed>>

obtain_slice(part) ==
  /\ part \in Parts
  /\ ObtainStep("obtain_slice", part)

obtain_slice_mut(part) ==
  /\ part \in Parts
  /\ ObtainStep("obtain_slice_mut", part)

(* ---- tess_gate.rs / backend render -------------------------------------- *)
(* the backend's render: a view that reaches past the tessellation's       *)
(* vertices is refused, any other view is drawn with one native draw call  *)
backend_render(t, start_index, vert_nb, inst_nb) ==
  IF start_index + vert_nb > tess_vertices_nb(t)
  THEN [res |-> "TessError", draws |-> <<>>]
  ELSE [res |-> "Ok",
        draws |-> <<[mode |-> t.mode, start_index |-> start_index,
                     vert_nb |-> vert_nb, inst_nb |-> inst_nb]>>]

ForwardSwapped(view) ==
  TessView(view.tess, view.start_index, view.inst_nb, view.vert_nb)

(* what TessGate::render passes to the backend *)
Forward(view) ==
  TessView(view.tess, view.start_index, view.vert_nb, view.inst_nb)

(* TessGate::render has no return type: its caller gets () whatever the    *)
(* backend did                                                             *)
GateResult(res) == "Unit"

render(view) ==
  LET sub == Forward(view)
      r   == backend_render(tess, sub.start_index, sub.vert_nb, sub.inst_nb)
  IN  /\ ~crashed
      /\ tess.id # 0
      /\ view.tess = tess.id
      /\ tessOp' = [TessOp("render", tess.mode, 0, r.res)
                      EXCEPT !.gate = GateResult(r.res), !.view = view,
                             !.submits = <<sub>>, !.draws = r.draws]
      /\ Publish(St, Op("render", 0, 0, 0, Res(r.res, 0)))
      /\ UNCHANGED <<tb, tess, created, alive, data, alloc, buffers, crashed>>

(* ---- texture.rs --------------------------------------------------------- *)
(* the HasTexture backend; t is one of its textures *)
HasTexture_new(x, t) ==
  [x EXCEPT !.count = t, !.live = @ \cup {t}, !.news[t] = @ + 1,
            !.calls = Append(@, TexCall("new", t))]

HasTexture_free(x, t) ==
  [x EXCEPT !.live = @ \ {t}, !.frees[t] = @ + 1,
            !.fault = IF t \in x.live THEN @ ELSE "double_free",
            !.calls = Append(@, TexCall("free", t))]

HasTexture_clear(x, t, pixel) ==
  [x EXCEPT !.store[t] = [k \in 1..TexSize |-> pixel],
            !.fault = IF t \in x.live THEN @ ELSE "use_after_free",
            !.calls = Append(@, TexCall("clear", t))]

HasTexture_upload(x, t, texels) ==
  [x EXCEPT !.store[t] = texels,
            !.fault = IF t \in x.live THEN @ ELSE "use_after_free",
            !.calls = Append(@, TexCall("upload", t))]

(* Tex::new, Tex::clear, Tex::upload and Drop for Tex; t is a Tex.  Drop   *)
(* frees whatever the field repr holds when it runs.                       *)
TexNew(x, t) ==
  [HasTexture_new(x, x.count + 1)
     EXCEPT !.made = t, !.held = @ \cup {t},
            !.repr[t] = x.count + 1, !.born[t] = x.count + 1]

TexClear(x, t, pixel) == HasTexture_clear(x, x.repr[t], pixel)

TexUpload(x, t, texels) == HasTexture_upload(x, x.repr[t], texels)

TexDrop(x, t) ==
  [HasTexture_free(x, x.repr[t]) EXCEPT !.held = @ \ {t}, !.repr[t] = 0]

(* the textures when an operation starts *)
Tx == [textures EXCEPT !.calls = <<>>]

coreVars == <<bound_array_buffer, ctx_array_buffer, created, alive, data,
              alloc, buffers, crashed, lastOp, lastCalls, lastBinds,
              prevCache, run, observe>>

Tex_new ==
  /\ textures.made < MaxTex
  /\ textures.count < MaxTex
  /\ textures' = TexNew(Tx, textures.made + 1)
  /\ texOp' = TexOp("new", textures.made + 1)
  /\ UNCHANGED <<coreVars, tessVars>>

(* clear, upload and drop take a Tex the caller owns *)
Tex_clear(t, pixel) ==
  /\ t \in textures.held
  /\ textures' = TexClear(Tx, t, pixel)
  /\ texOp' = TexOp("clear", t)
  /\ UNCHANGED <<coreVars, tessVars>>

Tex_upload(t, texels) ==
  /\ t \in textures.held
  /\ textures' = TexUpload(Tx, t, texels)
  /\ texOp' = TexOp("upload", t)
  /\ UNCHANGED <<coreVars, tessVars>>

Tex_drop(t) ==
  /\ t \in textures.held
  /\ textures.frees[textures.repr[t]] < MaxFree
  /\ textures' = TexDrop(Tx, t)
  /\ texOp' = TexOp("drop", t)
  /\ UNCHANGED <<coreVars, tessVars>>

(* pub repr: the caller writes the field of a Tex it owns with a texture   *)
(* of the backend; nothing is called                                       *)
Tex_repr(t, r) ==
  /\ t \in textures.held
  /\ r \in 1..textures.count
  /\ textures' = [Tx EXCEPT !.repr[t] = r]
  /\ texOp' = TexOp("repr", t)
  /\ UNCHANGED <<coreVars, tessVars>>

(* HasTexture is a public trait: C::new, C::free, C::clear and C::upload   *)
(* called by the caller itself, on a texture it got from C::new or through *)
(* the field repr of a Tex                                                 *)
C_new ==
  /\ textures.count < MaxTex
  /\ textures' = HasTexture_new(Tx, textures.count + 1)
  /\ texOp' = TexOp("C::new", textures.count + 1)
  /\ UNCHANGED <<coreVars, tessVars>>

C_free(r) ==
  /\ r \in 1..textures.count
  /\ textures.frees[r] < MaxFree
  /\ textures' = HasTexture_free(Tx, r)
  /\ texOp' = TexOp("C::free", r)
  /\ UNCHANGED <<coreVars, tessVars>>

C_clear(r, pixel) ==
  /\ r \in 1..textures.count
  /\ textures' = HasTexture_clear(Tx, r, pixel)
  /\ texOp' = TexOp("C::clear", r)
  /\ UNCHANGED <<coreVars, tessVars>>

C_upload(r, texels) ==
  /\ r \in 1..textures.count
  /\ textures' = HasTexture_upload(Tx, r, texels)
  /\ texOp' = TexOp("C::upload", r)
  /\ UNCHANGED <<coreVars, tessVars>>

Next ==
  \/ \E s \in Slots, l \in Lens, ok \in BOOLEAN : new_buffer(s, l, ok)
  \/ \E s \in Slots, d \in Slices, ok \in BOOLEAN : from_slice(s, d, ok)
  \/ \E s \in Slots : destroy_buffer(s)
  \/ \E s \in Slots : len(s)
  \/ \E s \in Slots, i \in Indices, outcome \in Outcomes :
        at(s, i, outcome)
  \/ \E s \in Slots, t \in Slots : clone(s, t)

Spec == Init /\ [][Next]_vars

SpecRuns == InitRuns /\ [][Next]_vars

NextTess ==
  \/ new_tess_builder
  \/ \E n \in Counts : add_vertices(n)
  \/ \E n \in Counts : add_instances(n)
  \/ \E n \in Overrides : set_indices(n)
  \/ \E mode \in Modes : set_mode(mode)
  \/ \E nb \in Overrides : set_vertex_nb(nb)
  \/ \E nb \in Overrides : set_instance_nb(nb)
  \/ \E index \in Restarts : set_primitive_restart_index(index)
  \/ \E fail \in 0..MaxAttach : build(fail)
  \/ \E start \in Counts, vert \in Counts, inst \in Overrides :
        render(TessView(tess.id, start, vert, inst))

SpecTess == Init /\ [][NextTess]_vars

(* a builder that is given Buffer values the caller created, next to host  *)
(* data and to the settings every builder has (TessBuilderBuffer is a      *)
(* TessBuilder), while the caller goes on using the Buffer values it kept  *)
(* (clones of the ones it gave away among them), and the slices of the     *)
(* tessellation built from it.                                             *)
NextTessBuffers ==
  \/ new_tess_builder
  \/ \E s \in Slots, l \in Lens, ok \in BOOLEAN : new_buffer(s, l, ok)
  \/ \E s \in Slots, d \in Slices, ok \in BOOLEAN : from_slice(s, d, ok)
  \/ \E s \in Slots : destroy_buffer(s)
  \/ \E s \in Slots : len(s)
  \/ \E s \in Slots, i \in Indices, outcome \in Outcomes :
        at(s, i, outcome)
  \/ \E s \in Slots, t \in Slots : clone(s, t)
  \/ \E n \in Counts : add_vertices(n)
  \/ \E n \in Counts : add_instances(n)
  \/ \E n \in Overrides : set_indices(n)
  \/ \E mode \in Modes : set_mode(mode)
  \/ \E nb \in Overrides : set_vertex_nb(nb)
  \/ \E nb \in Overrides : set_instance_nb(nb)
  \/ \E index \in Restarts : set_primitive_restart_index(index)
  \/ \E s \in Slots : add_vertex_buffer(s)
  \/ \E s \in Slots : add_instance_buffer(s)
  \/ \E s \in Slots : set_index_buffer(s)
  \/ \E fail \in 0..MaxAttach : build(fail)
  \/ \E driverOk \in BOOLEAN : slice_vertices(driverOk)
  \/ \E driverOk \in BOOLEAN : slice_vertices_mut(driverOk)
  \/ \E driverOk \in BOOLEAN : slice_indices(driverOk)
  \/ \E driverOk \in BOOLEAN : slice_indices_mut(driverOk)
  \/ \E driverOk \in BOOLEAN : slice_instances(driverOk)
  \/ \E driverOk \in BOOLEAN : slice_instances_mut(driverOk)
  \/ \E part \in Parts : obtain_slice(part)
  \/ \E part \in Parts : obtain_slice_mut(part)
  \/ \E start \in Counts, vert \in Counts, inst \in Overrides :
        render(TessView(tess.id, start, vert, inst))

SpecTessBuffers == Init /\ [][NextTessBuffers]_vars

NextTex ==
  \/ Tex_new
  \/ \E t \in Texs, pixel \in Pixels : Tex_clear(t, pixel)
  \/ \E t \in Texs, texels \in Texels : Tex_upload(t, texels)
  \/ \E t \in Texs : Tex_drop(t)
  \/ \E t \in Texs, r \in Texs : Tex_repr(t, r)
  \/ C_new
  \/ \E r \in Texs : C_free(r)
  \/ \E r \in Texs, pixel \in Pixels : C_clear(r, pixel)
  \/ \E r \in Texs, texels \in Texels : C_upload(r, texels)

SpecTex == Init /\ [][NextTex]_vars

TypeOK ==
  /\ bound_array_buffer \in Handles \cup {NoBuffer}
  /\ ctx_array_buffer \in Handles \cup {NoBuffer}
  /\ created \in 0..MaxHandles
  /\ alive \subseteq 1..created

(* ---- properties --------------------------------------------------------- *)
Creators == {"new_buffer", "from_slice"}

CallsNamed(c) == {k \in 1..Len(lastCalls) : lastCalls[k].call = c}

Forced == {k \in 1..Len(lastBinds) : lastBinds[k].mode = "Forced"}

Destroyed == Deleted

(* C1 as stated: in every sequence of consecutive Cached binds of one      *)
(* handle to the array-buffer target (repeated in-range at() calls on one  *)
(* buffer with nothing in between), the binds of the sequence issue        *)
(* exactly one native bind call, whatever the length of the sequence.      *)
C1_OneNativeBindPerSequence == run.len >= 1 => run.natives = 1

(* C1 as amended: the binds of such a sequence issue at most one native    *)
(* bind call, whatever its length: one, by the first bind, when the cache  *)
(* does not record the handle before the sequence, and none when it does   *)
(* (as right after the Forced bind of new_buffer or from_slice).           *)
C1_AtMostOneNativeBindPerSequence ==
  run.len >= 1 => run.natives = (IF run.firstHit THEN 0 ELSE 1)

C1_Witness ==
  /\ run.mode = "Cached"
  /\ run.len >= MaxRun
  /\ ~run.firstHit
  /\ run.natives = 1
  /\ bound_array_buffer = run.handle

(* a Cached bind of one handle directly followed by a Cached bind of       *)
(* another handle: at() on buffer A, then at() on buffer B                 *)
CachedPair ==
  run.mode = "Cached" /\ run.pMode = "Cached" /\ run.handle # run.pHandle

(* C2 as stated: a Cached bind of h1 followed by a Cached bind of h2 # h1  *)
(* issues exactly two native bind calls.                                   *)
C2_TwoHandlesTwoBinds == CachedPair => run.pNative + run.native = 2

(* C2 as amended: the bind of h2 always issues its native bind call, and   *)
(* the two binds issue exactly two native bind calls when the cache does   *)
(* not record h1 before the first of them, and exactly one (that of h2)    *)
(* when it does.                                                           *)
C2_SecondHandleAlwaysBound ==
  CachedPair => /\ run.native = 1
                /\ run.pNative + run.native = (IF run.pHit THEN 1 ELSE 2)

C2_Witness ==
  /\ CachedPair
  /\ ~run.pHit
  /\ run.pNative + run.native = 2
  /\ {run.handle, run.pHandle} \subseteq alive
  /\ bound_array_buffer = run.handle

(* the operation of this step is applied to a Buffer value whose native   *)
(* buffer was deleted before the step: destroy_buffer was applied to the   *)
(* value, or to a copy of it (section 8 of the specification calls this a  *)
(* violation of the caller's contract)                                     *)
Stale ==
  /\ lastOp'.op \in {"destroy_buffer", "len", "at"}
  /\ buffers[lastOp'.slot].buf \in Destroyed

(* C3 as stated: in every reachable state the cached array-buffer binding  *)
(* equals the buffer bound in the native context, also after               *)
(* destroy_buffer deleted the buffer that was bound.                       *)
C3_CacheMatchesContext == bound_array_buffer = ctx_array_buffer

(* C3 as amended: the cached binding equals the context's binding at the   *)
(* start, and every new_buffer, from_slice, at and destroy_buffer that is  *)
(* applied to a buffer not deleted before keeps them equal, also a         *)
(* destroy_buffer of the buffer that is bound.                             *)
C3_CacheMatchesContextInContract ==
  /\ bound_array_buffer = ctx_array_buffer
  /\ [][(bound_array_buffer = ctx_array_buffer /\ ~Stale)
          => bound_array_buffer' = ctx_array_buffer']_vars

C3_Witness ==
  /\ lastOp.op = "destroy_buffer"
  /\ prevCache # NoBuffer
  /\ prevCache \in Destroyed
  /\ bound_array_buffer = NoBuffer
  /\ ctx_array_buffer = NoBuffer
  /\ alive # {}

(* C4: a Forced bind always issues the native bind call and leaves the     *)
(* cache entry equal to its handle, whatever the cache recorded before; a  *)
(* successful new_buffer or from_slice issues exactly one Forced bind, and *)
(* every other operation issues none.                                      *)
C4_ForcedBinds ==
  /\ \A k \in Forced :
       /\ lastBinds[k].native
       /\ bound_array_buffer = lastBinds[k].handle
       /\ \E c \in CallsNamed("bind_buffer") :
            lastCalls[c].buf = lastBinds[k].handle
  /\ IF lastOp.op \in Creators /\ lastOp.res.tag = "Ok"
     THEN /\ Cardinality(Forced) = 1
          /\ \A k \in Forced : lastBinds[k].handle = buffers[lastOp.slot].buf
     ELSE Forced = {}

C4_Witness ==
  /\ lastOp.op = "from_slice"
  /\ lastOp.res.tag = "Ok"
  /\ prevCache # NoBuffer
  /\ prevCache \in alive
  /\ Cardinality(Forced) = 1

(* C5: a successful new_buffer(len) yields a buffer whose len is len and   *)
(* whose byte size, as recorded in the buffer and as passed to the         *)
(* allocate-storage call, is len * size_of(T).                             *)
C5_NewBufferSizes ==
  (lastOp.op = "new_buffer" /\ lastOp.res.tag = "Ok")
  => /\ buffers[lastOp.slot].len = lastOp.len
     /\ buffers[lastOp.slot].bytes = Exact(size_of_T, lastOp.len)
     /\ \E c \in CallsNamed("buffer_data") :
          lastCalls[c].size = Exact(size_of_T, lastOp.len)

(* C6: when the backend cannot create a native buffer object, new_buffer   *)
(* and from_slice return CannotCreate, issue no bind and no                *)
(* allocate-storage call, and leave the cached binding unchanged.          *)
C6_CannotCreate ==
  (lastOp.op \in Creators /\ lastCalls[1].buf = NoBuffer)
  => /\ lastOp.res.tag = "CannotCreate"
     /\ Len(lastCalls) = 1
     /\ lastBinds = <<>>
     /\ bound_array_buffer = prevCache
     /\ Len(buffers) < lastOp.slot

C6_Witness ==
  /\ lastOp.op \in Creators
  /\ lastOp.res.tag = "CannotCreate"
  /\ prevCache # NoBuffer
  /\ bound_array_buffer = prevCache

(* C7 as stated: destroy_buffer unbinds the buffer before it deletes the   *)
(* native handle, so the cache never records a destroyed handle as bound   *)
(* and no later Cached bind can be elided against it.                      *)
C7_DestroyedNeverCached ==
  /\ \A h \in Destroyed : bound_array_buffer # h
  /\ lastOp.op = "destroy_buffer" =>
       /\ lastCalls[Len(lastCalls)].call = "delete_buffer"
       /\ prevCache = lastCalls[Len(lastCalls)].buf =>
            lastCalls = <<Call("bind_buffer", NoBuffer, ZeroSize),
                          Call("delete_buffer", prevCache, ZeroSize)>>

(* C7 as amended: destroy_buffer unbinds the buffer before it deletes the  *)
(* native handle, so right after destroy_buffer(b) the cache does not      *)
(* record b's handle; and while no operation is applied to a buffer        *)
(* deleted before, the cache records no deleted handle and every elided    *)
(* Cached bind is a bind of the cached handle, which is not deleted.       *)
C7_DestroyedNotCachedInContract ==
  [][/\ lastOp'.op = "destroy_buffer" =>
          /\ bound_array_buffer' # buffers[lastOp'.slot].buf
          /\ lastCalls'[Len(lastCalls')] =
               Call("delete_buffer", buffers[lastOp'.slot].buf, ZeroSize)
          /\ bound_array_buffer = buffers[lastOp'.slot].buf =>
               lastCalls' = <<Call("bind_buffer", NoBuffer, ZeroSize),
                              Call("delete_buffer", bound_array_buffer,
                                   ZeroSize)>>
     /\ (bound_array_buffer \notin Destroyed /\ ~Stale) =>
          /\ bound_array_buffer' \notin Destroyed'
          /\ \A k \in 1..Len(lastBinds') :
               ~lastBinds'[k].native =>
                 /\ lastBinds'[k].handle = bound_array_buffer
                 /\ lastBinds'[k].handle \notin Destroyed]_vars

C7_Witness ==
  /\ lastOp.op = "destroy_buffer"
  /\ Len(lastCalls) = 2
  /\ lastCalls[2].buf = prevCache
  /\ prevCache \in Destroyed

(* C8: no two Buffer values hold the same native handle at the same time.  *)
C8_UniqueOwner ==
  \A s, t \in Held : s # t => buffers[s].buf # buffers[t].buf

(* C9: at(i) with i >= len returns None and issues no bind, map or unmap   *)
(* call, leaving the cache, the binding and every buffer's contents        *)
(* unchanged.                                                              *)
C9_OutOfRangeAt ==
  [][(lastOp'.op = "at" /\ lastOp'.i >= lastOp'.len)
     => /\ lastOp'.res.tag = "None"
        /\ lastCalls' = <<>>
        /\ lastBinds' = <<>>
        /\ UNCHANGED <<bound_array_buffer, ctx_array_buffer, data, alloc,
                       buffers>>]_vars

C9_Witness ==
  /\ lastOp.op = "at"
  /\ lastOp.res.tag = "None"
  /\ lastOp.i = lastOp.len
  /\ lastOp.len > 0
  /\ bound_array_buffer # NoBuffer
  /\ bound_array_buffer # buffers[lastOp.slot].buf

(* C10: for a buffer created by from_slice(data) and i < len, at(i)        *)
(* returns data[i], whatever was created, read or destroyed in between.    *)
C10_ReadsOwnData ==
  (/\ lastOp.op = "at"
   /\ lastOp.i < lastOp.len
   /\ buffers[lastOp.slot].origin = "from_slice")
  => lastOp.res = Res("Some", buffers[lastOp.slot].init[lastOp.i + 1])

(* C11: when mapping the buffer fails during at(i) with i < len, at        *)
(* reports the failure (MapFailed): it returns neither a value nor None.   *)
C11_MapFailureReported ==
  (/\ lastOp.op = "at"
   /\ lastOp.i < lastOp.len
   /\ \E c \in CallsNamed("map_buffer") : lastCalls[c].buf = NoBuffer)
  => lastOp.res.tag = "MapFailed"

(* C18: a successful new_buffer or from_slice issues its native calls in   *)
(* the order create, bind of the new handle (a Forced bind), allocate      *)
(* storage, and nothing else; the allocate-storage call acts on the new    *)
(* handle, which is the one bound in the context when it is issued.        *)
C18_CreateBindAllocate ==
  (lastOp.op \in Creators /\ lastOp.res.tag = "Ok")
  => LET h == buffers[lastOp.slot].buf
     IN  /\ Len(lastCalls) = 3
         /\ lastCalls[1] = Call("create_buffer", h, ZeroSize)
         /\ lastCalls[2] = Call("bind_buffer", h, ZeroSize)
         /\ lastCalls[3].call = "buffer_data"
         /\ lastCalls[3].buf = h
         /\ lastBinds = <<[handle |-> h, mode |-> "Forced", native |-> TRUE]>>

C18_Witness ==
  /\ lastOp.op = "from_slice"
  /\ lastOp.res.tag = "Ok"
  /\ Len(lastCalls) = 3
  /\ prevCache \in alive
  /\ lastCalls[3].buf # prevCache
  /\ lastCalls[3].buf = ctx_array_buffer

(* C19: destroy_buffer(a) while the cache records another buffer b leaves  *)
(* the cache entry at b, issues only the delete call, and leaves the store *)
(* of every other buffer as it was; an in-range at() on b right after it   *)
(* issues no native bind call.                                             *)
C19_DestroyOtherKeepsCache ==
  [][/\ (/\ lastOp'.op = "destroy_buffer"
         /\ bound_array_buffer # buffers[lastOp'.slot].buf)
        => /\ bound_array_buffer' = bound_array_buffer
           /\ lastCalls' = <<Call("delete_buffer", buffers[lastOp'.slot].buf,
                                  ZeroSize)>>
           /\ \A h \in Handles \ {buffers[lastOp'.slot].buf} :
                data'[h] = data[h] /\ alloc'[h] = alloc[h]
     /\ (/\ lastOp.op = "destroy_buffer"
         /\ bound_array_buffer = prevCache
         /\ lastOp'.op = "at"
         /\ lastOp'.i < lastOp'.len
         /\ buffers[lastOp'.slot].buf = prevCache)
        => /\ \A k \in 1..Len(lastCalls') : lastCalls'[k].call # "bind_buffer"
           /\ lastBinds' = <<[handle |-> prevCache, mode |-> "Cached",
                              native |-> FALSE]>>]_vars

C19_Witness ==
  /\ lastOp.op = "destroy_buffer"
  /\ prevCache \in alive
  /\ bound_array_buffer = prevCache
  /\ Len(lastCalls) = 1
  /\ data[prevCache] # <<>>

(* C20: after a successful new_buffer or from_slice the cache records the  *)
(* new buffer, and an at(i) with i < len on that buffer right after the    *)
(* creation issues no native bind call.                                    *)
C20_ReadAfterCreateNeedsNoBind ==
  [][/\ (lastOp'.op \in Creators /\ lastOp'.res.tag = "Ok")
        => bound_array_buffer' = buffers'[lastOp'.slot].buf
     /\ (/\ lastOp.op \in Creators
         /\ lastOp.res.tag = "Ok"
         /\ lastOp'.op = "at"
         /\ lastOp'.slot = lastOp.slot
         /\ lastOp'.i < lastOp'.len)
        => \A k \in 1..Len(lastCalls') : lastCalls'[k].call # "bind_buffer"
    ]_vars

C20_Witness ==
  /\ created = 1
  /\ lastOp.op = "at"
  /\ lastOp.res.tag = "Some"
  /\ lastOp.i < lastOp.len
  /\ prevCache = buffers[lastOp.slot].buf
  /\ lastBinds = <<[handle |-> prevCache, mode |-> "Cached",
                    native |-> FALSE]>>
  /\ CallsNamed("bind_buffer") = {}

(* ---- tessellation properties -------------------------------------------- *)
NoOverride(b) == b.vertex_nb = NoNb /\ b.instance_nb = NoNb

(* the attached vertex and instance slices do not all have one count *)
Inconsistent(b) == Cardinality(CountsOf(b.vbufs) \cup CountsOf(b.ibufs)) > 1

(* add_vertices with n > 0 vertices and nothing else attached: no         *)
(* instances, no indices                                                   *)
OnlyVertices(b) ==
  /\ Len(b.vbufs) = 1
  /\ IsRaw(b.vbufs[1])
  /\ b.vbufs[1].n > 0
  /\ b.ibufs = <<>>
  /\ b.indices = <<>>

(* the backend carried out every create_buffer call of the last operation *)
NothingRefused ==
  \A c \in CallsNamed("create_buffer") : lastCalls[c].buf # NoBuffer

BuilderFields == {"vbufs", "ibufs", "indices", "mode", "vertex_nb",
                  "instance_nb", "restart"}

SameBut(b, c, fields) == \A f \in BuilderFields \ fields : b[f] = c[f]

BuilderOps == {"add_vertices", "add_instances", "set_indices",
               "add_vertex_buffer", "add_instance_buffer", "set_index_buffer",
               "set_mode", "set_vertex_nb", "set_instance_nb",
               "set_primitive_restart_index", "build"}

Edges == {<<"None", "Empty">>, <<"Empty", "Accumulating">>,
          <<"Empty", "Failed">>, <<"Accumulating", "Accumulating">>,
          <<"Accumulating", "Built">>, <<"Accumulating", "Failed">>}

(* C12: a render(view) whose start_index + vert_nb exceeds the             *)
(* tessellation's vertex count gives the caller of the tess gate a         *)
(* TessError and issues no draw call.                                      *)
C12_OutOfRangeRenderFails ==
  (/\ tessOp.op = "render"
   /\ tessOp.view.start_index + tessOp.view.vert_nb > tess_vertices_nb(tess))
  => /\ tessOp.gate = "TessError"
     /\ tessOp.draws = <<>>

(* C13: every TessGate::render(view) submits exactly one render call to    *)
(* the backend, for the tessellation, start_index, vert_nb and inst_nb of  *)
(* the view, and issues no bind and leaves the cached buffer binding as it *)
(* was.                                                                    *)
C13_OneSubmissionPerRender ==
  [][tessOp'.op = "render"
     => /\ tessOp'.submits = <<tessOp'.view>>
        /\ tessOp'.view.tess = tess.id
        /\ tess' = tess
        /\ lastBinds' = <<>>
        /\ bound_array_buffer' = bound_array_buffer]_vars

C13_Witness ==
  /\ tessOp.op = "render"
  /\ tessOp.res = "Ok"
  /\ Len(tessOp.draws) = 1
  /\ tessOp.view.start_index > 0
  /\ tessOp.view.vert_nb # tessOp.view.inst_nb
  /\ bound_array_buffer # NoBuffer

(* C14: a build of a builder whose attached vertex and instance data have  *)
(* inconsistent counts, with no set_vertex_nb / set_instance_nb override,  *)
(* fails with TessError; and when a build fails, every native buffer it    *)
(* created has been deleted: the native buffers are those there were       *)
(* before the build.                                                       *)
C14_FailedBuildLeaksNothing ==
  [][lastOp'.op = "build"
     => /\ (Inconsistent(tb) /\ NoOverride(tb)) => tessOp'.res = "TessError"
        /\ tessOp'.res = "TessError"
           => /\ tb'.phase = "Failed"
              /\ tessOp'.allocated \cap alive' = {}
              /\ alive' = alive
              /\ tess' = tess]_vars

C14_Witness ==
  /\ tessOp.op = "build"
  /\ tessOp.res = "TessError"
  /\ Len(tessOp.builder.vbufs) = 1
  /\ Len(tessOp.builder.ibufs) = 1
  /\ tessOp.builder.vbufs[1].n > 0
  /\ tessOp.builder.ibufs[1].n > tessOp.builder.vbufs[1].n
  /\ IsRaw(tessOp.builder.vbufs[1])
  /\ NoOverride(tessOp.builder)
  /\ tb.phase = "Failed"
  /\ alive = {}

C16_BuilderLifecycle ==
  [][/\ tb' # tb => <<tb.phase, tb'.phase>> \in Edges
     /\ lastOp'.op = "build"
        => Live(tb) /\ tb'.phase \in {"Built", "Failed"}
     /\ tb.phase \in {"Built", "Failed"}
        => tb' = tb /\ lastOp'.op \notin BuilderOps]_vars

C16_Witness ==
  /\ tb.phase = "Built"
  /\ tessOp.op = "render"
  /\ tessOp.res = "Ok"
  /\ tess.id = tb.id
  /\ tess.vertices # <<>>
  /\ tess.indices # <<>>

(* C17: each of set_mode, set_vertex_nb, set_instance_nb and               *)
(* set_primitive_restart_index leaves its field equal to its argument and  *)
(* every other field and the attached data as they were, and add_* and    *)
(* set_indices change none of the four fields: the value of a field is the *)
(* argument of the last set call on it.                                    *)
C17_SettersLastWriteWins ==
  [][/\ tessOp'.op = "set_mode"
        => tb'.mode = tessOp'.argMode /\ SameBut(tb, tb', {"mode"})
     /\ tessOp'.op = "set_vertex_nb"
        => tb'.vertex_nb = tessOp'.arg /\ SameBut(tb, tb', {"vertex_nb"})
     /\ tessOp'.op = "set_instance_nb"
        => tb'.instance_nb = tessOp'.arg /\ SameBut(tb, tb', {"instance_nb"})
     /\ tessOp'.op = "set_primitive_restart_index"
        => tb'.restart = tessOp'.arg /\ SameBut(tb, tb', {"restart"})
     /\ tessOp'.op \in {"add_vertices", "add_instances"}
        => SameBut(tb, tb', {"vbufs", "ibufs"})
     /\ tessOp'.op = "set_indices" => SameBut(tb, tb', {"indices"})]_vars

C17_Witness ==
  /\ tessOp.op = "set_vertex_nb"
  /\ tessOp.arg = 1
  /\ tb.vertex_nb = 1
  /\ tb.instance_nb = MaxCount
  /\ tb.mode = "Triangle"
  /\ tb.restart # NoIndex
  /\ tb.vbufs # <<>>
  /\ tb.indices # <<>>

(* ---- texture properties -------------------------------------------------- *)
(* C21: for every Tex, HasTexture::new was called exactly once on its      *)
(* texture, by Tex::new, and HasTexture::free exactly once if the Tex was  *)
(* dropped, by the drop, and not at all while it is held; clear and upload *)
(* call only the backend's clear and upload; no texture was freed twice or *)
(* used after it was freed.                                                *)
C21_NewOnceFreeOnce ==
  /\ \A t \in 1..textures.made :
       /\ textures.news[textures.born[t]] = 1
       /\ textures.frees[textures.born[t]] =
            (IF t \in textures.held THEN 0 ELSE 1)
       /\ textures.born[t] \in textures.live <=> t \in textures.held
  /\ textures.fault = "none"
  /\ texOp.op = "new" =>
       textures.calls = <<TexCall("new", textures.born[texOp.tex])>>
  /\ texOp.op = "clear" =>
       textures.calls = <<TexCall("clear", textures.born[texOp.tex])>>
  /\ texOp.op = "upload" =>
       textures.calls = <<TexCall("upload", textures.born[texOp.tex])>>
  /\ texOp.op = "drop" =>
       textures.calls = <<TexCall("free", textures.born[texOp.tex])>>

====
